---- MODULE Spec2Model ----
(***************************************************************************)
(* The user API route src/pages/api/users/index.ts: one handler that      *)
(* dispatches on the HTTP method to calls of the ORM client, with a       *)
(* catch-all that turns every thrown error into a status-400 response.    *)
(*                                                                         *)
(* A request is handled in the steps the JavaScript event loop gives it:  *)
(* the synchronous part of the handler up to its first await (Receive),   *)
(* and the awaited storage call together with the continuation that sends *)
(* the response (StorageCompletes, StorageFails).  The continuation only  *)
(* touches the request's own response, so running it in the step of the   *)
(* call hides no interleaving.  Several requests are in flight at once;   *)
(* the store executes each call atomically.                                *)
(***************************************************************************)
EXTENDS Integers, FiniteSets, Sequences, Bags, TLC

\* ------------------------------------------------------------------ bounds
NumRequests == 2                \* requests in flight at once
NumEmails == 2

Emails == 1..NumEmails

\* ------------------------------------------------------------- input space
NoEmail == 0                      \* a body without the field email
NoPassword == "undefined"       \* a body without the field password
SeedPassword == "pw1"           \* the password of the Accounts stored at the start
NewPassword == "pw2"            \* the password a PUT sets
NoType == "undefined"           \* a body without the field type
NoName == "undefined"           \* a body without the field username
SeedName == "ana"               \* the username of the Accounts stored at the start
Types == {NoType, "admin", "superAdmin", "guest"}
Roles == <<"admin", "superadmin", "normal">>
Methods == {"GET", "POST", "DELETE", "PUT", "PATCH"}

\* req.body is null (a JSON body "null"), or an object with some of the fields.
NullBody == [isNull |-> TRUE]
Body(username, password, email, type) ==
    [isNull |-> FALSE, username |-> username, password |-> password,
     email |-> email, type |-> type]
EmptyBody == Body(NoName, NoPassword, NoEmail, NoType)

\* The bodies sent with each method: the fields the method reads, each
\* present or absent.
BodiesFor(method) ==
    {NullBody} \cup
    CASE method = "DELETE" -> {Body(NoName, NoPassword, e, NoType) : e \in {NoEmail} \cup Emails}
      [] method = "PUT" ->
           {Body(NoName, p, e, NoType) : p \in {NoPassword, NewPassword}, e \in Emails}
           \cup {Body(NoName, NewPassword, NoEmail, NoType)}
      [] method = "POST" ->
           {Body("neo", SeedPassword, e, t) : e \in Emails, t \in Types}
           \cup {Body("neo", SeedPassword, NoEmail, NoType)}
      [] OTHER -> {EmptyBody}

VARIABLES
    users,      \* the stored Accounts
    profiles,   \* the stored Role Profiles
    nextId,     \* the identifier the store gives the next Account
    pending,    \* the requests waiting for their storage call: a bag
    last,       \* the request answered in the last step, with its response
    live        \* history: the identifiers stored at the start or answered
                \* as created, less those answered as deleted

vars == <<users, profiles, nextId, pending, last, live>>

\* ------------------------------------------------------------ ORM client
Account(id, username, email, password) ==
    [id |-> id, username |-> username, email |-> email, password |-> password]

\* A settled promise: fulfilled with a value, or rejected with an error.
Ok(v) == [ok |-> TRUE, value |-> v]
Err(e) == [ok |-> FALSE, error |-> e]

ByEmail(us, email) == {u \in us : u.email = email}

\* A findFirst in place of findMany: at most one Account.
findFirst(us) == {u \in us : \A v \in us : u.id <= v.id}

\* prisma.user.findMany(): every stored Account.
findMany(us) == us

\* A relation without the cascade: the Role Profiles stay.
NoCascade(ps, ids) == ps

\* Removing an Account removes the Role Profile that references it.
Cascade(ps, ids) == {p \in ps : p.userId \notin ids}

\* A delete whose where clause is dropped: every Account goes.
deleteEveryUser(us, ps, email) ==
    IF email = NoEmail THEN [res |-> Err("ValidationError"), users |-> us, profiles |-> ps]
    ELSE IF ByEmail(us, email) = {}
         THEN [res |-> Err("NotFound"), users |-> us, profiles |-> ps]
    ELSE LET u == CHOOSE x \in ByEmail(us, email) : TRUE
         IN  [res |-> Ok(u), users |-> {}, profiles |-> {}]

\* prisma.user.delete({where: {email}}): the outcome and the store after it.
deleteUser(us, ps, email) ==
    IF email = NoEmail THEN [res |-> Err("ValidationError"), users |-> us, profiles |-> ps]
    ELSE IF ByEmail(us, email) = {}
         THEN [res |-> Err("NotFound"), users |-> us, profiles |-> ps]
    ELSE LET u == CHOOSE x \in ByEmail(us, email) : TRUE
         IN  [res |-> Ok(u), users |-> us \ {u}, profiles |-> Cascade(ps, {u.id})]

\* The Account after data: {password}; an undefined value leaves the column.
SetPassword(u, password) ==
    IF password = NoPassword THEN u ELSE [u EXCEPT !.password = password]

\* An update whose where clause does not narrow: every Account is written.
updateEveryUser(us, email, password) ==
    IF email = NoEmail THEN [res |-> Err("ValidationError"), users |-> us]
    ELSE IF ByEmail(us, email) = {}
         THEN [res |-> Err("NotFound"), users |-> us]
    ELSE LET u == CHOOSE x \in ByEmail(us, email) : TRUE
         IN  [res |-> Ok(SetPassword(u, password)),
              users |-> {SetPassword(x, password) : x \in us}]

\* prisma.user.update({where: {email}, data: {password}}).
updateUser(us, email, password) ==
    IF email = NoEmail THEN [res |-> Err("ValidationError"), users |-> us]
    ELSE IF ByEmail(us, email) = {}
         THEN [res |-> Err("NotFound"), users |-> us]
    ELSE LET u == CHOOSE x \in ByEmail(us, email) : TRUE
             v == SetPassword(u, password)
         IN  [res |-> Ok(v), users |-> (us \ {u}) \cup {v}]

\* prisma.<role>.create({data: {FK: {create: {username, email, password}}}}):
\* one Role Profile and, nested, the Account it references.
createWithRole(us, ps, id, body, role) ==
    IF body.username = NoName \/ body.email = NoEmail \/ body.password = NoPassword
    THEN [res |-> Err("ValidationError"), users |-> us, profiles |-> ps, nextId |-> id]
    ELSE IF ByEmail(us, body.email) # {}
         THEN [res |-> Err("UniqueConstraint"), users |-> us, profiles |-> ps, nextId |-> id]
    ELSE LET u == Account(id, body.username, body.email, body.password)
         IN  [res |-> Ok([role |-> role, userId |-> id]), users |-> us \cup {u},
              profiles |-> ps \cup {[role |-> role, userId |-> id]}, nextId |-> id + 1]

createAdmin(us, ps, id, body) == createWithRole(us, ps, id, body, "admin")
createSuperadmin(us, ps, id, body) == createWithRole(us, ps, id, body, "superadmin")
createNormal(us, ps, id, body) == createWithRole(us, ps, id, body, "normal")

\* ---------------------------------------------------------------- handler
\* The routine the POST branch names for a type.
Selected(type) ==
    IF type = "superAdmin" THEN "createSuperadmin"
    ELSE IF type = "admin" THEN "createAdmin"
    ELSE "createNormal"

\* The statement of the POST branch: an expression statement naming the
\* routine, with no call.  It leaves the store as it is and sends nothing.
PostBranch(us, ps, id, body) ==
    LET routine == Selected(body.type)
    IN  [users |-> us, profiles |-> ps, nextId |-> id, resp |-> <<>>]

\* The case labels of the switch: the branches that await a storage call,
\* and all the branches but the default.
Awaiting == {"GET", "DELETE", "PUT"}
Routed == Awaiting \cup {"POST"}

\* res.setHeader('Allow', [...]) of the default branch.
AllowHeader == {"GET", "POST"}

Response(status, kind, allow, body) ==
    [status |-> status, kind |-> kind, allow |-> allow, body |-> body]

\* The catch block: res.status(400).json({message: error}).
CatchResponse(error) == Response(400, "json", {}, [message |-> error])

\* The default branch: Allow header, status 405, plain text naming the method.
NotAllowed(method) == Response(405, "text", AllowHeader, [method |-> method])

\* res.status(200).json(value) after an awaited call.
OkResponse(value) == Response(200, "json", {}, value)

\* A request and its answer: the responses sent (resp), the storage calls
\* made (calls), how the call ended (storage), and the store before the step.
Exchange(method, body, resp, calls, storage, us, ps) ==
    [method |-> method, body |-> body, resp |-> resp, calls |-> calls,
     storage |-> storage, users |-> us, profiles |-> ps]

NoExchange == Exchange("none", NullBody, <<>>, 0, "none", {}, {})

\* The continuation after the await: status 200 with the call's value, or
\* the catch block with the error the call threw.
Continue(res) == IF res.ok THEN OkResponse(res.value) ELSE CatchResponse(res.error)

\* ------------------------------------------------------------------- Init
\* The store is persistent: it holds the Accounts written before, one for
\* each email, each with its Role Profile.  The Account with email e has
\* identifier e; the smaller stores are reached by DELETE requests.
SeedRole(e) == Roles[(e % Len(Roles)) + 1]

Init ==
    /\ users = {Account(e, SeedName, e, SeedPassword) : e \in Emails}
    /\ profiles = {[role |-> SeedRole(e), userId |-> e] : e \in Emails}
    /\ live = Emails
    /\ nextId = NumEmails + 1
    /\ pending = EmptyBag
    /\ last = NoExchange

\* ---------------------------------------------------------------- actions
\* Lines 54-59 and the branches that end without awaiting: the handler runs
\* from its entry to its first await, or to its end.
Receive ==
    \E method \in Methods : \E body \in BodiesFor(method) :
       IF body = NullBody
       THEN \* destructuring null throws a TypeError inside the try
            /\ last' = Exchange(method, body, <<CatchResponse("TypeError")>>, 0, "none",
                                users, profiles)
            /\ UNCHANGED <<users, profiles, nextId, pending, live>>
       ELSE IF method \in Awaiting
       THEN /\ BagCardinality(pending) < NumRequests
            /\ pending' = pending (+) SetToBag({[method |-> method, body |-> body]})
            /\ last' = NoExchange
            /\ UNCHANGED <<users, profiles, nextId, live>>
       ELSE IF method \in Routed
       THEN LET out == PostBranch(users, profiles, nextId, body)
            IN  /\ users' = out.users
                /\ profiles' = out.profiles
                /\ nextId' = out.nextId
                /\ last' = Exchange(method, body, out.resp, 0, "none", users, profiles)
                /\ live' = IF out.resp # <<>> /\ out.resp[1].status \in {200, 201}
                           THEN live \cup {nextId} ELSE live
                /\ UNCHANGED pending
       ELSE /\ last' = Exchange(method, body, <<NotAllowed(method)>>, 0, "none",
                                users, profiles)
            /\ UNCHANGED <<users, profiles, nextId, pending, live>>

\* The awaited ORM call is executed by the store, atomically, and the
\* handler sends its response.
StorageCompletes ==
    \E c \in BagToSet(pending) :
       /\ pending' = pending (-) SetToBag({c})
       /\ UNCHANGED nextId
       /\ CASE c.method = "GET" ->
                 /\ last' = Exchange(c.method, c.body, <<Continue(Ok(findMany(users)))>>, 1,
                                     "completed", users, profiles)
                 /\ UNCHANGED <<users, profiles, live>>
            [] c.method = "DELETE" ->
                 LET out == deleteUser(users, profiles, c.body.email)
                 IN  /\ users' = out.users
                     /\ profiles' = out.profiles
                     /\ last' = Exchange(c.method, c.body, <<Continue(out.res)>>, 1,
                                         "completed", users, profiles)
                     /\ live' = IF out.res.ok THEN live \ {out.res.value.id} ELSE live
            [] c.method = "PUT" ->
                 LET out == updateUser(users, c.body.email, c.body.password)
                 IN  /\ users' = out.users
                     /\ last' = Exchange(c.method, c.body, <<Continue(out.res)>>, 1,
                                         "completed", users, profiles)
                     /\ UNCHANGED <<profiles, live>>

\* The awaited ORM call rejects with a storage error and changes nothing;
\* the catch block answers.
StorageFails ==
    \E c \in BagToSet(pending) :
       /\ pending' = pending (-) SetToBag({c})
       /\ last' = Exchange(c.method, c.body, <<Continue(Err("StorageError"))>>, 1,
                           "failed", users, profiles)
       /\ UNCHANGED <<users, profiles, nextId, live>>

Next ==
    \/ Receive
    \/ StorageCompletes
    \/ StorageFails

Spec == Init /\ [][Next]_vars
\* ----------------------------------------------------------------- claims
Answered == last.method # "none"
Sent == last.resp[1]
OneResponse == Len(last.resp) = 1
StoreUnchanged == users = last.users /\ profiles = last.profiles
Matching == ByEmail(last.users, last.body.email)
Complete(body) ==
    ~body.isNull /\ body.username # NoName /\ body.password # NoPassword
    /\ body.email # NoEmail
ProfilesOf(id) == {p \in profiles : p.userId = id}

\* The role the specification gives a POST of a type.
RoleFor(type) ==
    IF type = "superAdmin" THEN "superadmin"
    ELSE IF type = "admin" THEN "admin" ELSE "normal"

\* C1: a POST whose body carries username, password and an email not yet
\* stored is answered with one success response (200 or 201), and the store
\* then holds exactly one new Account, the one with that email.
C1_PostCreatesAccount ==
    (last.method = "POST" /\ Complete(last.body) /\ Matching = {}) =>
        /\ OneResponse
        /\ Sent.status \in {200, 201}
        /\ Cardinality(ByEmail(users, last.body.email)) = 1
        /\ users \ last.users = ByEmail(users, last.body.email)
        /\ last.users \subseteq users

\* C2: after a POST with a valid body the Account with the body's email is
\* linked to exactly one Role Profile, of the role its type selects:
\* superAdmin gives superadmin, admin gives admin, anything else normal.
C2_PostRoleProfile ==
    (last.method = "POST" /\ Complete(last.body) /\ Matching = {}) =>
        \E u \in ByEmail(users, last.body.email) :
            ProfilesOf(u.id) = {[role |-> RoleFor(last.body.type), userId |-> u.id]}

C4_DeleteRemovesOne ==
    /\ {u.id : u \in users} \subseteq live
    /\ (last.method = "DELETE" /\ last.storage = "completed") =>
          /\ OneResponse
          /\ IF last.body.email # NoEmail /\ Matching # {}
             THEN /\ Sent.status = 200
                  /\ Sent.body \in Matching
                  /\ users = last.users \ {Sent.body}
                  /\ Sent.body.id \notin live
             ELSE /\ Sent.status = 400
                  /\ Sent.kind = "json"
                  /\ users = last.users

C4_Witness ==
    /\ last.method = "DELETE" /\ last.storage = "completed"
    /\ last.body.email \in Emails \ live
    /\ Sent.status = 400
    /\ users # {}

\* C5: a PUT with a password, executed while an Account has the body's
\* email, is answered 200 with the updated Account; that Account's password
\* becomes the body's password, its identifier, username and email stay, and
\* every other Account and every Role Profile is as before.
C5_PutChangesPasswordOnly ==
    (/\ last.method = "PUT" /\ last.storage = "completed"
     /\ last.body.email # NoEmail /\ last.body.password # NoPassword
     /\ Matching # {}) =>
        /\ OneResponse
        /\ Sent.status = 200
        /\ \E u \in Matching :
              /\ Sent.body = Account(u.id, u.username, u.email, last.body.password)
              /\ users = (last.users \ {u}) \cup {Sent.body}
        /\ profiles = last.profiles

C5_Witness ==
    /\ last.method = "PUT" /\ last.storage = "completed"
    /\ Sent.status = 200
    /\ Sent.body \notin last.users
    /\ Sent.body.password = NewPassword
    /\ \E u \in users : u.id # Sent.body.id /\ u.password = SeedPassword

\* C6: a request whose method is none of GET, POST, DELETE, PUT is answered
\* with status 405, an Allow header and a plain-text body naming the method,
\* never through the 400 path, and makes no storage call.
C6_UnsupportedMethod405 ==
    (Answered /\ last.method \notin Routed) =>
        /\ OneResponse
        /\ Sent.status = 405
        /\ Sent.allow # {}
        /\ Sent.kind = "text"
        /\ Sent.body = [method |-> last.method]
        /\ last.calls = 0
        /\ StoreUnchanged

\* C7: the Allow header of a 405 response names a method if and only if the
\* dispatcher routes it to an operation.
C7_AllowListsRouted ==
    (Answered /\ OneResponse /\ Sent.status = 405) =>
        \A m \in Methods : m \in Sent.allow <=> m \in Routed

\* A routed request whose operation fails: the storage call fails, a PUT or
\* DELETE finds no Account for its email, or a write lacks a required field.
Failure ==
    /\ Answered /\ last.method \in Routed
    /\ \/ last.storage = "failed"
       \/ last.body.isNull
       \/ /\ ~last.body.isNull
          /\ \/ last.method \in {"PUT", "DELETE"}
                /\ (last.body.email = NoEmail \/ Matching = {})
             \/ last.method = "PUT" /\ last.body.password = NoPassword
             \/ last.method = "POST" /\ ~Complete(last.body)

\* C8: every failure of a routed operation is answered with status 400 and a
\* JSON body {message: ...}, never with 200, and leaves the store unchanged.
C8_FailuresAnswered400 ==
    Failure =>
        /\ OneResponse
        /\ Sent.status = 400
        /\ Sent.kind = "json"
        /\ DOMAIN Sent.body = {"message"}
        /\ StoreUnchanged

\* C9: in every reachable store every Account is linked to exactly one Role
\* Profile and every Role Profile references a stored Account; a DELETE
\* leaves neither a profile without its Account nor an Account without its
\* profile.
C9_AccountsAndProfilesLinked ==
    /\ \A u \in users : Cardinality(ProfilesOf(u.id)) = 1
    /\ \A p \in profiles : \E u \in users : u.id = p.userId

C9_Witness ==
    /\ last.method = "DELETE" /\ last.storage = "completed"
    /\ Sent.status = 200
    /\ profiles # last.profiles
    /\ users # {}

\* C10: every request handled to its end has received exactly one response,
\* with a status in {200, 400, 405}.
C10_ExactlyOneResponse ==
    Answered => (OneResponse /\ Sent.status \in {200, 400, 405})
====
